---- MODULE Spec2Model ----
(***************************************************************************)
(* Token-based authentication of the ember-authentication sample app:     *)
(* the auth-manager service, the login-page component, the application    *)
(* adapter and route on the client, and the two routes of server/index.js *)
(* on the backend.  Requests and responses travel as messages, so that    *)
(* calls, responses and invalidate interleave as they can in the browser. *)
(***************************************************************************)
EXTENDS Integers, Sequences, FiniteSets

VARIABLES
    accessToken,       \* authManager.accessToken
    isAuthenticated,   \* authManager.isAuthenticated (computed.bool of accessToken)
    route,             \* the route the application shows
    tokenRequests,     \* POST /token requests on their way to the server
    tokenResponses,    \* responses of POST /token on their way to the caller
    resolved,          \* authenticate calls whose token is stored, success handler pending
    apiRequests,       \* GET /api/codes requests on their way to the server
    apiResponses,      \* responses of GET /api/codes on their way to the caller
    successAlerts,     \* number of 'Success!' alerts of the login page
    errorAlerts,       \* number of 'Error obtaining token' alerts of the login page
    lastAlert,         \* text of the last alert shown
    nAuthCalls,        \* authenticate calls made by the login page
    nInvalidate,       \* invalidate calls made
    nVisits,           \* loads of the secret route
    nExt,              \* requests sent to the backend by other HTTP clients
    invalidatedNoAuth, \* history: invalidate ran and no authenticate was called since
    lastError,         \* history: the session when the error action last ran
    logoutRun          \* history: invalidate calls in succession since the session
                       \* was last Authenticated (0: none, 2: two or more)

vars == <<accessToken, isAuthenticated, route, tokenRequests, tokenResponses,
          resolved, apiRequests, apiResponses, successAlerts, errorAlerts,
          lastAlert, nAuthCalls, nInvalidate, nVisits, nExt, invalidatedNoAuth,
          lastError, logoutRun>>

\* ---------------------------------------------------------------- bounds
MaxAuth == 2
MaxInvalidate == 2
MaxVisits == 1
MaxExt == 2

\* ------------------------------------------------------ JavaScript values
Undefined == [type |-> "undefined", str |-> "", elems |-> << >>]
Null == [type |-> "null", str |-> "", elems |-> << >>]
Str(s) == [type |-> "string", str |-> s, elems |-> << >>]
Arr(e) == [type |-> "array", str |-> "", elems |-> e]
Obj == [type |-> "object", str |-> "", elems |-> << >>]

\* Array.prototype.join(",") of an array of strings
RECURSIVE Join(_)
Join(e) ==
    IF Len(e) = 0 THEN ""
    ELSE IF Len(e) = 1 THEN e[1]
    ELSE e[1] \o "," \o Join(Tail(e))

\* ToString, as a template literal and == apply it
ToString(v) ==
    CASE v.type = "undefined" -> "undefined"
      [] v.type = "null" -> "null"
      [] v.type = "string" -> v.str
      [] v.type = "array" -> Join(v.elems)
      [] OTHER -> "[object Object]"

\* ToBoolean, as Ember.computed.bool applies it (!!value)
ToBoolean(v) ==
    CASE v.type \in {"undefined", "null"} -> FALSE
      [] v.type = "string" -> v.str # ""
      [] OTHER -> TRUE

\* v == s for a string literal s: null and undefined equal no string, an
\* object or array is converted to a primitive (its string) first
LooseEquals(v, s) ==
    CASE v.type \in {"undefined", "null"} -> FALSE
      [] OTHER -> ToString(v) = s

\* v !== s for a string literal s
StrictNotEquals(v, s) == ~(v.type = "string" /\ v.str = s)

\* obj.name of a parsed object: undefined when the property is missing
Get(obj, name) == IF name \in DOMAIN obj THEN obj[name] ELSE Undefined

\* ---------------------------------------------------------------- backend
\* app.get('/api/codes'): the response to a request with this Authorization header
CodesPayload == [data |-> <<"1", "2">>]

\* the route before it was protected: every request is served
GetCodes_Unprotected(authorization) ==
    [status |-> 200, body |-> CodesPayload]

GetCodes(authorization) ==
    IF StrictNotEquals(authorization, "Bearer some bs")
    THEN [status |-> 401, body |-> [text |-> "Unauthorized"]]
    ELSE [status |-> 200, body |-> CodesPayload]

\* app.post('/token'): the response to a request with this parsed body
PostToken(body) ==
    IF LooseEquals(Get(body, "username"), "login")
       /\ LooseEquals(Get(body, "password"), "password")
    THEN [status |-> 200, body |-> [access_token |-> Str("some bs")]]
    ELSE [status |-> 400, body |-> [error |-> Str("invalid_grant")]]

\* the text of a response body, as jqXHR.responseText holds it
ResponseText(body) ==
    IF "error" \in DOMAIN body THEN "{\"error\":\"" \o body.error.str \o "\"}"
    ELSE IF "access_token" \in DOMAIN body
    THEN "{\"access_token\":\"" \o body.access_token.str \o "\"}"
    ELSE IF "text" \in DOMAIN body THEN body.text
    ELSE "{\"data\":[]}"

\* ----------------------------------------------------------------- client
\* a field of the ajax data as bodyParser.urlencoded parses it on the server:
\* jQuery.param writes null and undefined as the empty string
FormValue(v) ==
    IF v.type \in {"undefined", "null"} THEN Str("") ELSE Str(ToString(v))

\* an adapter that writes no token when none is stored
headers_EmptyWhenNull ==
    [Authorization |->
        Str("Bearer " \o (IF ToBoolean(accessToken) THEN ToString(accessToken) ELSE ""))]

\* the headers the application adapter computes
headers == [Authorization |-> Str("Bearer " \o ToString(accessToken))]

\* what the user may have typed in the login form (an untouched field is undefined)
Credentials ==
    {<<Str("login"), Str("password")>>, <<Str("x"), Str("y")>>,
     <<Str("login"), Undefined>>}

\* what other HTTP clients may send
ExtAuthorizations ==
    {Undefined, Str("Bearer some bs"), Str("Bearer null"), Str("bearer some bs"),
     Str("some bs"), Str("Bearer some bs ")}
ExtBodies ==
    {[username |-> Str("login"), password |-> Str("password")],
     [username |-> Str("login"), password |-> Str("y")],
     [username |-> Arr(<<"login">>), password |-> Str("password")],
     [username |-> Str("login"), password |-> Arr(<<"password">>)],
     [username |-> Arr(<<"login", "x">>), password |-> Str("password")],
     [username |-> Obj, password |-> Str("password")],
     [password |-> Str("password")]}

\* a service that starts with a token restored from an earlier session
Init_TokenRestored ==
    /\ accessToken = Str("some bs")
    /\ isAuthenticated = TRUE
    /\ route = "none"
    /\ tokenRequests = {}
    /\ tokenResponses = {}
    /\ resolved = {}
    /\ apiRequests = {}
    /\ apiResponses = {}
    /\ successAlerts = 0
    /\ errorAlerts = 0
    /\ lastAlert = ""
    /\ nAuthCalls = 0
    /\ nInvalidate = 0
    /\ nVisits = 0
    /\ nExt = 0
    /\ invalidatedNoAuth = FALSE
    /\ lastError = "none"
    /\ logoutRun = 0

Init ==
    /\ accessToken = Null
    /\ isAuthenticated = FALSE
    /\ route = "none"
    /\ tokenRequests = {}
    /\ tokenResponses = {}
    /\ resolved = {}
    /\ apiRequests = {}
    /\ apiResponses = {}
    /\ successAlerts = 0
    /\ errorAlerts = 0
    /\ lastAlert = ""
    /\ nAuthCalls = 0
    /\ nInvalidate = 0
    /\ nVisits = 0
    /\ nExt = 0
    /\ invalidatedNoAuth = FALSE
    /\ lastError = "none"
    /\ logoutRun = 0

\* this.set('accessToken', value): the computed isAuthenticated follows
SetAccessToken(value) ==
    /\ accessToken' = value
    /\ isAuthenticated' = ToBoolean(value)

\* the user opens /login (the login-page component is rendered)
VisitLogin ==
    /\ route # "login"
    /\ route' = "login"
    /\ UNCHANGED <<lastError, logoutRun>>
    /\ UNCHANGED <<accessToken, isAuthenticated, tokenRequests, tokenResponses,
                   resolved, apiRequests, apiResponses, successAlerts, errorAlerts,
                   lastAlert, nAuthCalls, nInvalidate, nVisits, nExt,
                   invalidatedNoAuth>>

\* login-page action authenticate -> authManager.authenticate: one POST /token
authenticate(login, password) ==
    /\ route = "login"
    /\ nAuthCalls < MaxAuth
    /\ nAuthCalls' = nAuthCalls + 1
    /\ tokenRequests' = tokenRequests \cup
          {[id |-> nAuthCalls + 1, src |-> "app", epoch |-> nInvalidate,
            body |-> [username |-> FormValue(login),
                      password |-> FormValue(password)]]}
    /\ invalidatedNoAuth' = FALSE
    /\ UNCHANGED <<lastError, logoutRun>>
    /\ UNCHANGED <<accessToken, isAuthenticated, route, tokenResponses, resolved,
                   apiRequests, apiResponses, successAlerts, errorAlerts,
                   lastAlert, nInvalidate, nVisits, nExt>>

\* another HTTP client posts to /token
ExternalPost(body) ==
    /\ nExt < MaxExt
    /\ nExt' = nExt + 1
    /\ tokenRequests' = tokenRequests \cup
          {[id |-> nExt + 1, src |-> "ext", epoch |-> 0, body |-> body]}
    /\ UNCHANGED <<lastError, logoutRun>>
    /\ UNCHANGED <<accessToken, isAuthenticated, route, tokenResponses, resolved,
                   apiRequests, apiResponses, successAlerts, errorAlerts,
                   lastAlert, nAuthCalls, nInvalidate, nVisits, invalidatedNoAuth>>

\* a handler whose failure branch sends no response
HandleToken_NoReplyOnFailure(req) ==
    /\ req \in tokenRequests
    /\ tokenRequests' = tokenRequests \ {req}
    /\ tokenResponses' =
          IF PostToken(req.body).status = 200
          THEN tokenResponses \cup
                  {[req |-> req, status |-> PostToken(req.body).status,
                    body |-> PostToken(req.body).body]}
          ELSE tokenResponses
    /\ UNCHANGED <<lastError, logoutRun>>
    /\ UNCHANGED <<accessToken, isAuthenticated, route, resolved, apiRequests,
                   apiResponses, successAlerts, errorAlerts, lastAlert,
                   nAuthCalls, nInvalidate, nVisits, nExt, invalidatedNoAuth>>

\* a server that remembers the logins it served and issues its token once
HandleToken_SingleSession(req) ==
    /\ req \in tokenRequests
    /\ tokenRequests' = tokenRequests \ {req}
    /\ tokenResponses' = tokenResponses \cup
          {IF \E r \in tokenResponses \cup resolved : r.status = 200
           THEN [req |-> req, status |-> 400,
                 body |-> [error |-> Str("invalid_grant")]]
           ELSE [req |-> req, status |-> PostToken(req.body).status,
                 body |-> PostToken(req.body).body]}
    /\ UNCHANGED <<lastError, logoutRun>>
    /\ UNCHANGED <<accessToken, isAuthenticated, route, resolved, apiRequests,
                   apiResponses, successAlerts, errorAlerts, lastAlert,
                   nAuthCalls, nInvalidate, nVisits, nExt, invalidatedNoAuth>>

\* the server handles one POST /token
HandleToken(req) ==
    /\ req \in tokenRequests
    /\ tokenRequests' = tokenRequests \ {req}
    /\ tokenResponses' = tokenResponses \cup
          {[req |-> req, status |-> PostToken(req.body).status,
            body |-> PostToken(req.body).body]}
    /\ UNCHANGED <<lastError, logoutRun>>
    /\ UNCHANGED <<accessToken, isAuthenticated, route, resolved, apiRequests,
                   apiResponses, successAlerts, errorAlerts, lastAlert,
                   nAuthCalls, nInvalidate, nVisits, nExt, invalidatedNoAuth>>

\* a then callback that reads result.token, a field the server does not send
authenticateDone_WrongField(resp) ==
    /\ resp \in tokenResponses
    /\ resp.req.src = "app"
    /\ resp.status \in 200..299
    /\ SetAccessToken(Get(resp.body, "token"))
    /\ tokenResponses' = tokenResponses \ {resp}
    /\ resolved' = resolved \cup {resp}
    /\ logoutRun' = 0
    /\ UNCHANGED lastError
    /\ UNCHANGED <<route, tokenRequests, apiRequests, apiResponses, successAlerts,
                   errorAlerts, lastAlert, nAuthCalls, nInvalidate, nVisits, nExt,
                   invalidatedNoAuth>>

\* a then callback that resolves without storing the token
authenticateDone_NoStore(resp) ==
    /\ resp \in tokenResponses
    /\ resp.req.src = "app"
    /\ resp.status \in 200..299
    /\ tokenResponses' = tokenResponses \ {resp}
    /\ resolved' = resolved \cup {resp}
    /\ logoutRun' = 0
    /\ UNCHANGED lastError
    /\ UNCHANGED <<accessToken, isAuthenticated, route, tokenRequests, apiRequests,
                   apiResponses, successAlerts, errorAlerts, lastAlert, nAuthCalls,
                   nInvalidate, nVisits, nExt, invalidatedNoAuth>>

\* authManager.authenticate, the then callback of the ajax call on a 2xx response.
\* The success handler of the login page is a later callback of the promise chain
\* (loginSuccess): other callbacks of the page may run between the two.
authenticateDone(resp) ==
    /\ resp \in tokenResponses
    /\ resp.req.src = "app"
    /\ resp.status \in 200..299
    /\ SetAccessToken(Get(resp.body, "access_token"))
    /\ tokenResponses' = tokenResponses \ {resp}
    /\ resolved' = resolved \cup {resp}
    /\ logoutRun' = 0
    /\ UNCHANGED lastError
    /\ UNCHANGED <<route, tokenRequests, apiRequests, apiResponses, successAlerts,
                   errorAlerts, lastAlert, nAuthCalls, nInvalidate, nVisits, nExt,
                   invalidatedNoAuth>>

\* login-page, the success handler of authenticate
loginSuccess(resp) ==
    /\ resp \in resolved
    /\ resolved' = resolved \ {resp}
    /\ successAlerts' = successAlerts + 1
    /\ lastAlert' = "Success! Click the top link!"
    /\ UNCHANGED <<lastError, logoutRun>>
    /\ UNCHANGED <<accessToken, isAuthenticated, route, tokenRequests,
                   tokenResponses, apiRequests, apiResponses, errorAlerts,
                   nAuthCalls, nInvalidate, nVisits, nExt, invalidatedNoAuth>>

\* a callback attached with always instead of then: it stores result.access_token
\* of a failed call too
loginError_StoresToken(resp) ==
    /\ resp \in tokenResponses
    /\ resp.req.src = "app"
    /\ resp.status \notin 200..299
    /\ SetAccessToken(Get(resp.body, "access_token"))
    /\ tokenResponses' = tokenResponses \ {resp}
    /\ errorAlerts' = errorAlerts + 1
    /\ lastAlert' = "Error obtaining token: " \o ResponseText(resp.body)
    /\ UNCHANGED <<lastError, logoutRun>>
    /\ UNCHANGED <<route, tokenRequests, resolved, apiRequests, apiResponses,
                   successAlerts, nAuthCalls, nInvalidate, nVisits, nExt,
                   invalidatedNoAuth>>

\* an error handler that sends the request again after a failure
loginError_Retry(resp) ==
    /\ resp \in tokenResponses
    /\ resp.req.src = "app"
    /\ resp.status \notin 200..299
    /\ tokenResponses' = tokenResponses \ {resp}
    /\ tokenRequests' =
          IF errorAlerts < MaxAuth THEN tokenRequests \cup {resp.req}
          ELSE tokenRequests
    /\ errorAlerts' = errorAlerts + 1
    /\ lastAlert' = "Error obtaining token: " \o ResponseText(resp.body)
    /\ UNCHANGED <<lastError, logoutRun>>
    /\ UNCHANGED <<accessToken, isAuthenticated, route, resolved, apiRequests,
                   apiResponses, successAlerts, nAuthCalls, nInvalidate, nVisits,
                   nExt, invalidatedNoAuth>>

\* a failed ajax call skips the then callback of authManager.authenticate and
\* runs the error handler of the login page
loginError(resp) ==
    /\ resp \in tokenResponses
    /\ resp.req.src = "app"
    /\ resp.status \notin 200..299
    /\ tokenResponses' = tokenResponses \ {resp}
    /\ errorAlerts' = errorAlerts + 1
    /\ lastAlert' = "Error obtaining token: " \o ResponseText(resp.body)
    /\ UNCHANGED <<lastError, logoutRun>>
    /\ UNCHANGED <<accessToken, isAuthenticated, route, tokenRequests, resolved,
                   apiRequests, apiResponses, successAlerts, nAuthCalls,
                   nInvalidate, nVisits, nExt, invalidatedNoAuth>>

\* an invalidate that assigns the field without set: isAuthenticated is not recomputed
invalidate_NoNotify ==
    /\ nInvalidate < MaxInvalidate
    /\ nInvalidate' = nInvalidate + 1
    /\ accessToken' = Null
    /\ invalidatedNoAuth' = TRUE
    /\ logoutRun' = IF isAuthenticated THEN 1 ELSE IF logoutRun >= 1 THEN 2 ELSE 0
    /\ UNCHANGED lastError
    /\ UNCHANGED <<isAuthenticated, route, tokenRequests, tokenResponses, resolved,
                   apiRequests, apiResponses, successAlerts, errorAlerts, lastAlert,
                   nAuthCalls, nVisits, nExt>>

\* an invalidate whose guard is inverted: it resets the token only when none is stored
invalidate_InvertedGuard ==
    /\ nInvalidate < MaxInvalidate
    /\ nInvalidate' = nInvalidate + 1
    /\ IF isAuthenticated
       THEN UNCHANGED <<accessToken, isAuthenticated>>
       ELSE SetAccessToken(Null)
    /\ invalidatedNoAuth' = TRUE
    /\ logoutRun' = IF isAuthenticated THEN 1 ELSE IF logoutRun >= 1 THEN 2 ELSE 0
    /\ UNCHANGED lastError
    /\ UNCHANGED <<route, tokenRequests, tokenResponses, resolved, apiRequests,
                   apiResponses, successAlerts, errorAlerts, lastAlert,
                   nAuthCalls, nVisits, nExt>>

\* authManager.invalidate
invalidate ==
    /\ nInvalidate < MaxInvalidate
    /\ nInvalidate' = nInvalidate + 1
    /\ SetAccessToken(Null)
    /\ invalidatedNoAuth' = TRUE
    /\ logoutRun' = IF isAuthenticated THEN 1 ELSE IF logoutRun >= 1 THEN 2 ELSE 0
    /\ UNCHANGED lastError
    /\ UNCHANGED <<route, tokenRequests, tokenResponses, resolved, apiRequests,
                   apiResponses, successAlerts, errorAlerts, lastAlert,
                   nAuthCalls, nVisits, nExt>>

\* the secret route loads its model: store.findAll('code') sends GET /api/codes
\* with the adapter's headers
secretModel ==
    /\ nVisits < MaxVisits
    /\ nVisits' = nVisits + 1
    /\ apiRequests' = apiRequests \cup
          {[id |-> nVisits + 1, src |-> "app",
            authorization |-> headers.Authorization,
            auth |-> isAuthenticated, afterInvalidate |-> invalidatedNoAuth]}
    /\ UNCHANGED <<lastError, logoutRun>>
    /\ UNCHANGED <<accessToken, isAuthenticated, route, tokenRequests,
                   tokenResponses, resolved, apiResponses, successAlerts,
                   errorAlerts, lastAlert, nAuthCalls, nInvalidate, nExt,
                   invalidatedNoAuth>>

\* another HTTP client gets /api/codes
ExternalGet(authorization) ==
    /\ nExt < MaxExt
    /\ nExt' = nExt + 1
    /\ apiRequests' = apiRequests \cup
          {[id |-> nExt + 1, src |-> "ext", authorization |-> authorization,
            auth |-> FALSE, afterInvalidate |-> FALSE]}
    /\ UNCHANGED <<lastError, logoutRun>>
    /\ UNCHANGED <<accessToken, isAuthenticated, route, tokenRequests,
                   tokenResponses, resolved, apiResponses, successAlerts,
                   errorAlerts, lastAlert, nAuthCalls, nInvalidate, nVisits,
                   invalidatedNoAuth>>

\* the server handles one GET /api/codes
HandleCodes(req) ==
    /\ req \in apiRequests
    /\ apiRequests' = apiRequests \ {req}
    /\ apiResponses' = apiResponses \cup
          {[req |-> req, status |-> GetCodes(req.authorization).status,
            body |-> GetCodes(req.authorization).body]}
    /\ UNCHANGED <<lastError, logoutRun>>
    /\ UNCHANGED <<accessToken, isAuthenticated, route, tokenRequests,
                   tokenResponses, resolved, successAlerts, errorAlerts,
                   lastAlert, nAuthCalls, nInvalidate, nVisits, nExt,
                   invalidatedNoAuth>>

\* the model of the secret route resolves: the secret page is shown
secretLoaded(resp) ==
    /\ resp \in apiResponses
    /\ resp.req.src = "app"
    /\ resp.status \in 200..299
    /\ apiResponses' = apiResponses \ {resp}
    /\ route' = "secret"
    /\ UNCHANGED <<lastError, logoutRun>>
    /\ UNCHANGED <<accessToken, isAuthenticated, tokenRequests, tokenResponses,
                   resolved, apiRequests, successAlerts, errorAlerts, lastAlert,
                   nAuthCalls, nInvalidate, nVisits, nExt, invalidatedNoAuth>>

\* an error action that also invalidates the session
error_ClearsToken(resp) ==
    /\ resp \in apiResponses
    /\ resp.req.src = "app"
    /\ resp.status \notin 200..299
    /\ apiResponses' = apiResponses \ {resp}
    /\ route' = "login"
    /\ lastError' = IF isAuthenticated THEN "authenticated" ELSE "anonymous"
    /\ UNCHANGED logoutRun
    /\ SetAccessToken(Null)
    /\ UNCHANGED <<tokenRequests, tokenResponses, resolved, apiRequests,
                   successAlerts, errorAlerts, lastAlert, nAuthCalls, nInvalidate,
                   nVisits, nExt, invalidatedNoAuth>>

\* an error action that lets the error bubble without a transition
error_NoRedirect(resp) ==
    /\ resp \in apiResponses
    /\ resp.req.src = "app"
    /\ resp.status \notin 200..299
    /\ apiResponses' = apiResponses \ {resp}
    /\ lastError' = IF isAuthenticated THEN "authenticated" ELSE "anonymous"
    /\ UNCHANGED logoutRun
    /\ UNCHANGED <<accessToken, isAuthenticated, route, tokenRequests,
                   tokenResponses, resolved, apiRequests, successAlerts,
                   errorAlerts, lastAlert, nAuthCalls, nInvalidate, nVisits, nExt,
                   invalidatedNoAuth>>

\* application route, action error: transitionTo('/login'); return false
error(resp) ==
    /\ resp \in apiResponses
    /\ resp.req.src = "app"
    /\ resp.status \notin 200..299
    /\ apiResponses' = apiResponses \ {resp}
    /\ route' = "login"
    /\ lastError' = IF isAuthenticated THEN "authenticated" ELSE "anonymous"
    /\ UNCHANGED logoutRun
    /\ UNCHANGED <<accessToken, isAuthenticated, tokenRequests, tokenResponses,
                   resolved, apiRequests, successAlerts, errorAlerts, lastAlert,
                   nAuthCalls, nInvalidate, nVisits, nExt, invalidatedNoAuth>>

\* the other HTTP client receives its response
ExternalReceive ==
    /\ \E resp \in tokenResponses \cup apiResponses : resp.req.src = "ext"
    /\ tokenResponses' = {r \in tokenResponses : r.req.src # "ext"}
    /\ apiResponses' = {r \in apiResponses : r.req.src # "ext"}
    /\ UNCHANGED <<lastError, logoutRun>>
    /\ UNCHANGED <<accessToken, isAuthenticated, route, tokenRequests, resolved,
                   apiRequests, successAlerts, errorAlerts, lastAlert, nAuthCalls,
                   nInvalidate, nVisits, nExt, invalidatedNoAuth>>

Next ==
    \/ VisitLogin
    \/ \E c \in Credentials : authenticate(c[1], c[2])
    \/ \E req \in tokenRequests : HandleToken(req)
    \/ \E resp \in tokenResponses : authenticateDone(resp)
    \/ \E resp \in resolved : loginSuccess(resp)
    \/ \E resp \in tokenResponses : loginError(resp)
    \/ invalidate
    \/ secretModel
    \/ \E req \in apiRequests : HandleCodes(req)
    \/ \E resp \in apiResponses : secretLoaded(resp)
    \/ \E resp \in apiResponses : error(resp)

Spec == Init /\ [][Next]_vars

\* the server answers every request it receives and the browser runs every
\* callback that is due
Fairness ==
    /\ WF_vars(\E req \in tokenRequests : HandleToken(req))
    /\ WF_vars(\E resp \in tokenResponses : authenticateDone(resp))
    /\ WF_vars(\E resp \in resolved : loginSuccess(resp))
    /\ WF_vars(\E resp \in tokenResponses : loginError(resp))
    /\ WF_vars(\E req \in apiRequests : HandleCodes(req))
    /\ WF_vars(\E resp \in apiResponses : secretLoaded(resp))
    /\ WF_vars(\E resp \in apiResponses : error(resp))

SpecLive == Spec /\ Fairness

\* the backend alone, serving any HTTP client
NextBackend ==
    \/ \E b \in ExtBodies : ExternalPost(b)
    \/ \E a \in ExtAuthorizations : ExternalGet(a)
    \/ \E req \in tokenRequests : HandleToken(req)
    \/ \E req \in apiRequests : HandleCodes(req)
    \/ ExternalReceive

SpecBackend == Init /\ [][NextBackend]_vars

\* what the url /token may answer to the ajax call when the client runs against
\* any identity endpoint: the two replies of server/index.js, a 2xx reply without
\* access_token, a 2xx reply with an empty one, and a server error
EndpointReplies ==
    {[status |-> 200, body |-> [access_token |-> Str("some bs")]],
     [status |-> 200, body |-> [token |-> Str("some bs")]],
     [status |-> 200, body |-> [access_token |-> Str("")]],
     [status |-> 400, body |-> [error |-> Str("invalid_grant")]],
     [status |-> 500, body |-> [text |-> "Internal Server Error"]]}

\* the ajax call of authManager.authenticate receives a reply
EndpointAnswers(req, reply) ==
    /\ req \in tokenRequests
    /\ req.src = "app"
    /\ tokenRequests' = tokenRequests \ {req}
    /\ tokenResponses' = tokenResponses \cup
          {[req |-> req, status |-> reply.status, body |-> reply.body]}
    /\ UNCHANGED <<lastError, logoutRun>>
    /\ UNCHANGED <<accessToken, isAuthenticated, route, resolved, apiRequests,
                   apiResponses, successAlerts, errorAlerts, lastAlert,
                   nAuthCalls, nInvalidate, nVisits, nExt, invalidatedNoAuth>>

\* the login flow of the client alone, against any identity endpoint
NextClient ==
    \/ VisitLogin
    \/ \E c \in Credentials : authenticate(c[1], c[2])
    \/ \E req \in tokenRequests, reply \in EndpointReplies :
            EndpointAnswers(req, reply)
    \/ \E resp \in tokenResponses : authenticateDone(resp)
    \/ \E resp \in resolved : loginSuccess(resp)
    \/ \E resp \in tokenResponses : loginError(resp)
    \/ invalidate

SpecClient == Init /\ [][NextClient]_vars

\* ------------------------------------------------------------ properties
ValidBody == [username |-> Str("login"), password |-> Str("password")]
InvalidGrantText == "Error obtaining token: {\"error\":\"invalid_grant\"}"
AppLoginsInFlight ==
    {q \in tokenRequests : q.src = "app"}
        \cup {r.req : r \in {x \in tokenResponses : x.req.src = "app"}}

\* C1: in every reachable state the stored token is a non-empty string if and
\* only if the session reports Authenticated (isAuthenticated is true).
C1_TokenIffAuthenticated ==
    (accessToken.type = "string" /\ accessToken.str # "") <=> isAuthenticated

C1_Witness ==
    /\ isAuthenticated
    /\ accessToken = Str("some bs")
    /\ nInvalidate >= 1
    /\ AppLoginsInFlight # {}

\* C2: a login with login/password is answered 200; when its response resolves
\* the token "some bs" is stored and the session is Authenticated; the token
\* stays until the next invalidate; every request decorated while Authenticated
\* carries Authorization: Bearer some bs and is answered 200 with the codes.
C2_RoundTrip ==
    /\ [](/\ \A r \in tokenResponses :
                (r.req.src = "app" /\ r.req.body = ValidBody)
                    => (r.status = 200 /\ r.body = [access_token |-> Str("some bs")])
          /\ isAuthenticated =>
                (accessToken = Str("some bs")
                 /\ headers = [Authorization |-> Str("Bearer some bs")])
          /\ \A q \in apiRequests :
                (q.src = "app" /\ q.auth) => q.authorization = Str("Bearer some bs")
          /\ \A r \in apiResponses :
                (r.req.src = "app" /\ r.req.auth)
                    => (r.status = 200 /\ r.body = CodesPayload))
    /\ [][/\ \A r \in tokenResponses :
                (r.req.src = "app" /\ r.req.body = ValidBody
                 /\ r \notin tokenResponses')
                    => (accessToken' = Str("some bs") /\ isAuthenticated'
                        /\ r \in resolved')
          /\ (isAuthenticated /\ nInvalidate' = nInvalidate)
                => (isAuthenticated' /\ accessToken' = Str("some bs"))]_vars

C2_Witness ==
    /\ isAuthenticated
    /\ successAlerts >= 1
    /\ \E r \in apiResponses : r.req.src = "app" /\ r.req.auth /\ r.status = 200

\* C3: a login whose credentials are not login/password is answered 400 with
\* invalid_grant; handling that response leaves the stored token and
\* isAuthenticated as they were and runs the error handler of the login page,
\* which shows the invalid_grant text, and not the success handler.
C3_Rejection ==
    /\ [](\A r \in tokenResponses :
            (r.req.src = "app" /\ r.req.body # ValidBody)
                => (r.status = 400 /\ r.body = [error |-> Str("invalid_grant")]))
    /\ [][\A r \in tokenResponses :
            (r.req.src = "app" /\ r.req.body # ValidBody /\ r \notin tokenResponses')
                => (/\ accessToken' = accessToken
                    /\ isAuthenticated' = isAuthenticated
                    /\ errorAlerts' = errorAlerts + 1
                    /\ lastAlert' = InvalidGrantText
                    /\ successAlerts' = successAlerts
                    /\ resolved' = resolved)]_vars

C3_Witness ==
    /\ errorAlerts >= 1
    /\ successAlerts = 0
    /\ lastAlert = InvalidGrantText
    /\ ~isAuthenticated
    /\ accessToken = Null
    /\ AppLoginsInFlight = {}

\* C4 as stated: a request decorated while the session is Anonymous carries
\* no Authorization header.
C4_NoHeaderWhenAnonymous ==
    \A q \in apiRequests : (q.src = "app" /\ ~q.auth) => q.authorization = Undefined

\* C4 as amended: while the session is Anonymous the adapter's header is
\* Authorization: Bearer null, every request decorated then carries exactly
\* that header, and /api/codes answers it 401.
C4_BearerNullWhenAnonymous ==
    /\ ~isAuthenticated => headers = [Authorization |-> Str("Bearer null")]
    /\ \A q \in apiRequests :
            (q.src = "app" /\ ~q.auth) => q.authorization = Str("Bearer null")
    /\ \A r \in apiResponses :
            (r.req.src = "app" /\ ~r.req.auth)
                => (r.req.authorization = Str("Bearer null") /\ r.status = 401)

C4_Witness ==
    /\ nInvalidate >= 1
    /\ successAlerts >= 1
    /\ \E r \in apiResponses :
            r.req.src = "app" /\ ~r.req.auth /\ r.req.afterInvalidate

\* C5: every request the client sends to /api/codes after an invalidate, with
\* no authenticate call issued since that invalidate, is answered 401.
C5_Unauthorized401AfterInvalidate ==
    \A r \in apiResponses :
        (r.req.src = "app" /\ r.req.afterInvalidate) => r.status = 401

\* C6: GET /api/codes answers 200 with the codes only to a request whose
\* Authorization header is exactly "Bearer some bs"; every other request,
\* without the header or with another value, is answered 401 Unauthorized.
C6_CodesOnlyWithToken ==
    \A r \in apiResponses :
        IF r.req.authorization = Str("Bearer some bs")
        THEN r.status = 200 /\ r.body = CodesPayload
        ELSE r.status = 401 /\ r.body = [text |-> "Unauthorized"]

C6_Witness ==
    /\ \E r \in apiResponses :
            r.req.authorization = Str("Bearer null") /\ r.status = 401
    /\ \E r \in apiResponses :
            r.req.authorization = Str("Bearer some bs") /\ r.status = 200

\* C7: POST /token answers 200 with the token exactly when username is the
\* string "login" and password is the string "password", and 400 with
\* invalid_grant for every other body.
C7_TokenOnlyForStringPair ==
    \A r \in tokenResponses :
        IF Get(r.req.body, "username") = Str("login")
           /\ Get(r.req.body, "password") = Str("password")
        THEN r.status = 200 /\ r.body = [access_token |-> Str("some bs")]
        ELSE r.status = 400 /\ r.body = [error |-> Str("invalid_grant")]

\* C8: at most one POST /token of the login page is in flight at any time.
C8_AtMostOneLoginInFlight == Cardinality(AppLoginsInFlight) <= 1

\* C9: an invalidate issued while a login is in flight leaves the session
\* unchanged, and a login started before an invalidate that has completed
\* never makes the session Authenticated.
C9_NoLogoutDuringLogin ==
    [][/\ (nInvalidate' = nInvalidate + 1 /\ AppLoginsInFlight # {})
            => (accessToken' = accessToken /\ isAuthenticated' = isAuthenticated)
       /\ \A r \in tokenResponses :
            (r \in resolved' /\ r \notin resolved /\ r.req.epoch < nInvalidate)
                => ~isAuthenticated']_vars

C13_TokenOnlyFromExchange ==
    /\ [](/\ nAuthCalls = 0 => (accessToken = Null /\ ~isAuthenticated)
          /\ (isAuthenticated \/ accessToken # Null)
                => (/\ accessToken = Str("some bs")
                    /\ Cardinality(resolved) + successAlerts >= 1))
    /\ [][/\ (accessToken' # accessToken /\ accessToken' # Null)
                => \E r \in tokenResponses :
                      /\ r.req.src = "app"
                      /\ r.status = 200
                      /\ accessToken' = Get(r.body, "access_token")
                      /\ r \notin tokenResponses'
                      /\ r \in resolved'
          /\ (\/ nInvalidate' # nInvalidate
              \/ apiRequests' # apiRequests
              \/ apiResponses' # apiResponses
              \/ errorAlerts' # errorAlerts)
                => accessToken' \in {accessToken, Null}]_vars

C13_Witness ==
    /\ isAuthenticated
    /\ accessToken = Str("some bs")
    /\ errorAlerts >= 1
    /\ nInvalidate >= 1
    /\ lastError = "anonymous"

\* C14: a 2xx response of /token whose access_token is missing or empty is
\* reported as a failure: handling it leaves the stored token as it was and
\* runs the error handler, not the success handler; the stored token is never
\* empty or undefined.
WellFormedToken(v) == v.type = "string" /\ v.str # ""

C14_MalformedTokenRejected ==
    /\ [](accessToken = Null \/ WellFormedToken(accessToken))
    /\ [][\A r \in tokenResponses :
            (/\ r.req.src = "app"
             /\ r.status \in 200..299
             /\ ~WellFormedToken(Get(r.body, "access_token"))
             /\ r \notin tokenResponses')
                => (/\ accessToken' = accessToken
                    /\ errorAlerts' = errorAlerts + 1
                    /\ r \notin resolved')]_vars

\* C15: a load of the secret route made while not logged in is answered 401;
\* handling a 401 of a route load transitions to /login and changes nothing
\* else the user sees; every such load is eventually handled that way.
RouteLoadInFlight(i) ==
    \/ \E q \in apiRequests : q.src = "app" /\ q.id = i
    \/ \E r \in apiResponses : r.req.src = "app" /\ r.req.id = i

C15_UnauthorizedRedirects ==
    /\ [](\A r \in apiResponses :
            (r.req.src = "app" /\ ~r.req.auth) => r.status = 401)
    /\ [][\A r \in apiResponses :
            (r.req.src = "app" /\ r.status = 401 /\ r \notin apiResponses')
                => (/\ route' = "login"
                    /\ lastError' # "none"
                    /\ UNCHANGED <<lastAlert, successAlerts, errorAlerts>>)]_vars
    /\ \A i \in 1..MaxVisits :
            (\/ \E q \in apiRequests : q.src = "app" /\ q.id = i /\ ~q.auth
             \/ \E r \in apiResponses :
                    r.req.src = "app" /\ r.req.id = i /\ r.status = 401)
                ~> (~RouteLoadInFlight(i) /\ lastError # "none")

C15_Witness ==
    /\ nAuthCalls = 0
    /\ nVisits >= 1
    /\ lastError = "anonymous"
    /\ route = "login"
    /\ apiRequests = {}
    /\ apiResponses = {}

\* C16: the number of POST /token requests the login page has sent (those in
\* flight, those whose token is stored and those whose handler has run)
\* equals the number of authenticate calls, each request belonging to its
\* own call: no call sends twice and no failure is retried.
C16_OnePostPerCall ==
    /\ Cardinality(AppLoginsInFlight) + Cardinality(resolved)
            + successAlerts + errorAlerts = nAuthCalls
    /\ \A q \in AppLoginsInFlight \cup {r.req : r \in resolved} :
            q.id \in 1..nAuthCalls
    /\ \A q1 \in AppLoginsInFlight, q2 \in AppLoginsInFlight \cup {r.req : r \in resolved} :
            q1.id = q2.id => q1 = q2

C16_Witness ==
    /\ nAuthCalls = 2
    /\ errorAlerts = 1
    /\ successAlerts = 1
    /\ AppLoginsInFlight = {}
    /\ resolved = {}

\* C17: the backend keeps no state: two logins with the same username and
\* password get the same response, every token issued is "some bs", two
\* requests of /api/codes with the same Authorization header get the same
\* response, and Bearer some bs is accepted whatever happened before, an
\* invalidate on the client included.
AnsweredLogins == tokenResponses \cup resolved

C17_StatelessBackend ==
    /\ \A r1 \in AnsweredLogins, r2 \in AnsweredLogins :
            r1.req.body = r2.req.body
                => (r1.status = r2.status /\ r1.body = r2.body)
    /\ \A r \in AnsweredLogins :
            r.status = 200 => r.body = [access_token |-> Str("some bs")]
    /\ \A r1 \in apiResponses, r2 \in apiResponses :
            r1.req.authorization = r2.req.authorization
                => (r1.status = r2.status /\ r1.body = r2.body)
    /\ \A r \in apiResponses :
            r.req.authorization = Str("Bearer some bs")
                => (r.status = 200 /\ r.body = CodesPayload)

C17_Witness ==
    /\ \E r1 \in AnsweredLogins, r2 \in AnsweredLogins :
            r1.req.id # r2.req.id /\ r1.status = 200 /\ r2.status = 200
    /\ nInvalidate >= 1
    /\ \E r \in apiResponses :
            /\ r.req.afterInvalidate
            /\ r.req.authorization = Str("Bearer some bs")
            /\ r.status = 200

\* C18: each handler answers the request it takes with exactly one response;
\* an authenticate call that leaves the promise chain has run exactly one of
\* the two handlers of the login page, once; and every authenticate call
\* eventually settles.
LoginPending(i) ==
    \E q \in AppLoginsInFlight \cup {r.req : r \in resolved} : q.id = i

HandlersRun == successAlerts + errorAlerts

C18_AnsweredAndSettledOnce ==
    /\ [](HandlersRun <= nAuthCalls)
    /\ [][/\ \A q \in tokenRequests :
                q \notin tokenRequests'
                    => Cardinality({r \in tokenResponses' \ tokenResponses :
                                        r.req = q}) = 1
          /\ \A q \in apiRequests :
                q \notin apiRequests'
                    => Cardinality({r \in apiResponses' \ apiResponses :
                                        r.req = q}) = 1
          /\ \A i \in 1..MaxAuth :
                (LoginPending(i) /\ ~LoginPending(i)')
                    => (/\ HandlersRun' = HandlersRun + 1
                        /\ successAlerts' >= successAlerts
                        /\ errorAlerts' >= errorAlerts)
          /\ HandlersRun' # HandlersRun
                => \E i \in 1..MaxAuth : LoginPending(i) /\ ~LoginPending(i)']_vars
    /\ \A i \in 1..MaxAuth :
            LoginPending(i) ~> (nAuthCalls >= i /\ ~LoginPending(i))

C18_Witness ==
    /\ nAuthCalls >= 2
    /\ HandlersRun = nAuthCalls
    /\ successAlerts >= 1
    /\ errorAlerts >= 1
    /\ nVisits >= 1
    /\ tokenRequests = {} /\ tokenResponses = {} /\ resolved = {}
    /\ apiRequests = {} /\ apiResponses = {}

====
